---- MODULE Spec2Model ----
(***************************************************************************)
(* Training-management REST API (server/routes.ts, server/auth.ts) over    *)
(* the relational store (server/storage.ts, server/storage-simple.ts,      *)
(* shared/schema.ts).  One action per route handler; an action is the      *)
(* whole middleware chain of the route: isAuthenticated, the multer upload *)
(* where the route has one, and the handler with its try/catch.            *)
(***************************************************************************)
EXTENDS Integers, Sequences, FiniteSets, TLC

\* ------------------------------------------------------------------------
\* Bounds of the model
\* ------------------------------------------------------------------------
\* rows and files the API may add in one behaviour (all tables and the
\* uploads directory together)
MaxStoreRows == 2
\* data rows of an uploaded sheet
MaxSheetRows == 1
\* data rows of a sheet, and rows the store may gain, where only the bulk
\* import runs
MaxImportRows == 3
MaxImportStore == 4
\* enrollments of the stores the dashboard is computed on
MaxEnrollments == 2

\* ------------------------------------------------------------------------
\* Values
\* ------------------------------------------------------------------------
\* a JSON field that is absent (undefined), of the wrong JavaScript type,
\* or SQL NULL; numeric fields use NoId / BadNum instead
MISSING == "undefined"
BAD == "bad-type"
NULL == "null"
NoId == 0
BadNum == -1
\* an id that no row carries
GhostId == 99

Roles == {"employee", "manager", "hr_admin"}

\* users present in the database when the server starts, one per role
SeedUsers ==
  { [id |-> "emp1", username |-> "emp", password |-> "pw-e", role |-> "employee"],
    [id |-> "mgr1", username |-> "mgr", password |-> "pw-m", role |-> "manager"],
    [id |-> "hr1",  username |-> "hr",  password |-> "pw-h", role |-> "hr_admin"] }

\* gen_random_uuid() for the k-th user created through the API
NewUserId(k) == IF k = 1 THEN "new1" ELSE IF k = 2 THEN "new2" ELSE "new3"

\* values of the Authorization header: none, one that is no user's id, and
\* the ids of the seeded users
Actors == { u.id : u \in SeedUsers }

Headers == {MISSING, "ghost"} \cup Actors

\* which storage call of the request throws (a database error), if any:
\* the getUser of isAuthenticated, the getUser of the role check, a read,
\* the business write, the audit insert, or fs.unlinkSync
Faults == {"none", "auth", "role", "read", "write", "audit", "unlink"}

Impls == {"simple", "full"}

\* enrollment status values of the schema comment, in lifecycle order
StatusRank(s) ==
  CASE s = "enrolled" -> 0
    [] s = "attended" -> 1
    [] s = "absent" -> 1
    [] s = "completed" -> 2
    [] OTHER -> -1

VARIABLES
  impl,                     \* which module the routes' `storage` is
  users,                    \* table users
  trainingCatalog,          \* table training_catalog, in insertion order
  trainingSessions,         \* table training_sessions
  trainingEnrollments,      \* table training_enrollments
  trainingFeedback,         \* table training_feedback
  effectivenessEvaluations, \* table effectiveness_evaluations
  evidenceAttachments,      \* table evidence_attachments
  auditLogs,                \* table audit_logs, in insertion order
  files,                    \* files in the uploads directory
  last                      \* the last request and its response

entityTables == <<users, trainingCatalog, trainingSessions, trainingEnrollments,
                  trainingFeedback, effectivenessEvaluations, evidenceAttachments>>

store == <<users, trainingCatalog, trainingSessions, trainingEnrollments,
           trainingFeedback, effectivenessEvaluations, evidenceAttachments,
           auditLogs>>

disk == <<files>>

vars == <<impl, users, trainingCatalog, trainingSessions, trainingEnrollments,
          trainingFeedback, effectivenessEvaluations, evidenceAttachments,
          auditLogs, files, last>>

\* ------------------------------------------------------------------------
\* Storage
\* ------------------------------------------------------------------------
\* methods of the DatabaseStorage class of storage-simple.ts
SimpleMethods ==
  {"getUser", "getUserByUsername", "createUser", "getAllUsers",
   "getTrainingCatalog", "getTrainingSessions", "getTrainingEnrollments",
   "createTrainingCatalog", "getComplianceMetrics", "getEmployeeCompliance"}

\* methods of the DatabaseStorage class of storage.ts
FullMethods ==
  {"getUser", "getUserByUsername", "createUser", "getUsersByDepartment",
   "getUsersByRole", "getTrainingCatalog", "getTrainingCatalogById",
   "createTrainingCatalog", "updateTrainingCatalog", "deleteTrainingCatalog",
   "getTrainingSessions", "getTrainingSessionById",
   "getTrainingSessionsByDateRange", "createTrainingSession",
   "updateTrainingSession", "deleteTrainingSession",
   "getTrainingEnrollments", "getEnrollmentsByEmployee",
   "getEnrollmentsBySession", "createTrainingEnrollment",
   "updateTrainingEnrollment", "getTrainingFeedback", "getFeedbackBySession",
   "createTrainingFeedback", "getEffectivenessEvaluations",
   "getEvaluationsByEmployee", "getEvaluationsByManager",
   "createEffectivenessEvaluation", "updateEffectivenessEvaluation",
   "getEvidenceAttachments", "getAttachmentsByEnrollment",
   "createEvidenceAttachment", "deleteEvidenceAttachment", "createAuditLog",
   "getAuditLogs", "getComplianceMetrics", "getEmployeeComplianceStatus"}

\* storage.m is a function; calling a method the object lacks is a TypeError
Has(m) == IF impl = "simple" THEN m \in SimpleMethods ELSE m \in FullMethods

\* rows of  select().from(users).where(eq(users.id, id))
getUser(id) == { u \in users : u.id = id }

\* rows of  select().from(users).where(eq(users.username, username))
getUserByUsername(username) == { u \in users : u.username = username }

Ids(table) == { table[i].id : i \in 1..Len(table) }

\* serial primary key of the next inserted row
NextId(table) == Len(table) + 1

\* the row  insert(auditLogs).values({...log, performedAt}).returning()
AuditRow(entityType, entityId, action, changes, performedBy) ==
  [id |-> NextId(auditLogs), entityType |-> entityType, entityId |-> entityId,
   action |-> action, changes |-> changes, performedBy |-> performedBy]

\* variant: the insert overwrites the newest entry instead of appending
createAuditLog_Upsert(entityType, entityId, action, changes, performedBy) ==
  IF auditLogs = <<>>
  THEN <<AuditRow(entityType, entityId, action, changes, performedBy)>>
  ELSE [auditLogs EXCEPT ![Len(auditLogs)] =
          [AuditRow(entityType, entityId, action, changes, performedBy)
             EXCEPT !.id = Len(auditLogs)]]

createAuditLog(entityType, entityId, action, changes, performedBy) ==
  Append(auditLogs, AuditRow(entityType, entityId, action, changes, performedBy))

\* ------------------------------------------------------------------------
\* Access guard
\* ------------------------------------------------------------------------
\* variant: a request without a known user continues as the demo user
isAuthenticated_DemoUser(auth, fault) ==
  IF fault = "auth" THEN {}
  ELSE IF auth = MISSING \/ getUser(auth) = {} THEN getUser("emp1")
  ELSE getUser(auth)

\* isAuthenticated: the rows the request continues with; {} is the 401
isAuthenticated(auth, fault) ==
  IF auth = MISSING THEN {}
  ELSE IF fault = "auth" THEN {}
  ELSE getUser(auth)

\* variant: a handler without its role check
Forbidden_Never(rows, allow) == FALSE

\* the role check of a handler:  currentUser?.role !== 'hr_admin'  (and
\* !== 'manager' where managers are allowed); rows is the getUser result
Forbidden(rows, allow) == \A u \in rows : u.role \notin allow

\* the requests a route is tried with: the actor a0 with every body, every
\* header with the body b0, and every fault with a0 and b0
Requests(Bodies, faults, a0, b0) ==
  { [auth |-> a0, fault |-> "none", body |-> b] : b \in Bodies }
  \cup { [auth |-> a, fault |-> "none", body |-> b0] : a \in Headers }
  \cup { [auth |-> a0, fault |-> f, body |-> b0] : f \in faults }

\* the record of the request and its response;
\* result: id of the row the response carries (NoId if none)
Response(route, req, status, result) ==
  [route |-> route, auth |-> req.auth, fault |-> req.fault, body |-> req.body,
   status |-> status, result |-> result]

Respond(route, req, status, result) ==
  last' = Response(route, req, status, result)

\* a response whose body the model keeps: the error entries of an import,
\* the metrics of the dashboard, the entries of the compliance report
RespondWith(route, req, status, result, data) ==
  last' = [route |-> route, auth |-> req.auth, fault |-> req.fault,
           body |-> req.body, status |-> status, result |-> result,
           data |-> data]

NoBody == [none |-> TRUE]

NoRequest == [auth |-> MISSING, fault |-> "none", body |-> NoBody]

\* rows the API has added to the store, and files in the uploads directory
StoreRows ==
  Len(trainingCatalog) + Len(trainingSessions) + Len(trainingEnrollments)
  + Len(trainingFeedback) + Len(effectivenessEvaluations)
  + Len(evidenceAttachments) + Len(auditLogs)
  + (Cardinality(users) - Cardinality(SeedUsers)) + Cardinality(files)

Room(n) == StoreRows + n <= MaxStoreRows

Init ==
  /\ impl \in Impls
  /\ users = SeedUsers
  /\ trainingCatalog = <<>>
  /\ trainingSessions = <<>>
  /\ trainingEnrollments = <<>>
  /\ trainingFeedback = <<>>
  /\ effectivenessEvaluations = <<>>
  /\ evidenceAttachments = <<>>
  /\ auditLogs = <<>>
  /\ files = {}
  /\ last = Response("start", NoRequest, 0, NoId)

\* ------------------------------------------------------------------------
\* Auth routes
\* ------------------------------------------------------------------------
LoginBodies ==
  { [username |-> "emp", password |-> "pw-e"],
    [username |-> "emp", password |-> "pw-h"],
    [username |-> "nobody", password |-> "pw-e"],
    [username |-> MISSING, password |-> "pw-e"],
    [username |-> "hr", password |-> MISSING] }

\* { ...user, password: undefined }: res.json leaves the key out
withoutPassword(user) == [user EXCEPT !.password = MISSING]

\* variant: the token is the login name
loginToken_Username(user) == user.username

\* token: user.id
loginToken(user) == user.id

\* POST /api/login
Login ==
  \E req \in { [auth |-> MISSING, fault |-> "none", body |-> b] : b \in LoginBodies }
             \cup { [auth |-> MISSING, fault |-> "read",
                     body |-> [username |-> "emp", password |-> "pw-e"]] } :
    LET route == "POST /api/login"
        body == req.body
        fault == req.fault
        rows == getUserByUsername(body.username)
    IN
    /\ UNCHANGED <<impl, store, disk>>
    /\ IF body.username = MISSING \/ body.password = MISSING
       THEN Respond(route, req, 400, NoId)
       ELSE IF fault = "read"
       THEN Respond(route, req, 500, NoId)
       ELSE IF rows = {} \/ (\A u \in rows : u.password # body.password)
       THEN Respond(route, req, 401, NoId)
       ELSE RespondWith(route, req, 200, NoId,
                        [user |-> withoutPassword(CHOOSE u \in rows : TRUE),
                         token |-> loginToken(CHOOSE u \in rows : TRUE)])

\* POST /api/logout
Logout ==
  \E auth \in {MISSING, "emp1"} :
    /\ UNCHANGED <<impl, store, disk>>
    /\ Respond("POST /api/logout",
               [auth |-> auth, fault |-> "none", body |-> NoBody], 200, NoId)

\* ------------------------------------------------------------------------
\* Insert schemas (shared/schema.ts)
\* ------------------------------------------------------------------------
IsString(v) == v \notin {MISSING, BAD}
OptString(v) == v # BAD
IsNumber(n) == n \notin {NoId, BadNum}
OptNumber(n) == n # BadNum

\* variant: title declared without notNull
insertTrainingCatalogSchema_OptionalTitle(data) ==
  /\ OptString(data.title)
  /\ IsString(data.type)
  /\ IsString(data.category)
  /\ IsNumber(data.duration)

\* insertTrainingCatalogSchema.parse: title, type, category and duration
\* are notNull columns without default
insertTrainingCatalogSchema(data) ==
  /\ IsString(data.title)
  /\ IsString(data.type)
  /\ IsString(data.category)
  /\ IsNumber(data.duration)

\* insertTrainingSessionSchema.parse: title and duration are required (the
\* other required columns, sessionDate and trainerType, are taken as given)
insertTrainingSessionSchema(data) ==
  /\ IsString(data.title)
  /\ IsNumber(data.duration)
  /\ OptNumber(data.catalogId)

\* insertTrainingEnrollmentSchema.parse: every column is nullable or has a
\* default; status is any string
insertTrainingEnrollmentSchema(data) ==
  /\ OptNumber(data.sessionId)
  /\ OptString(data.employeeId)
  /\ OptString(data.status)

\* insertUserSchema.parse: every column is nullable or has a default
insertUserSchema(data) ==
  /\ OptString(data.username)
  /\ OptString(data.password)
  /\ OptString(data.role)

\* a column value: an absent field is stored as NULL
Col(v) == IF v = MISSING THEN NULL ELSE v

\* variant: session_id declared without references
FkSession_Unchecked(sessionId) == TRUE

\* foreign keys of the tables (references(() => ...)); NULL satisfies them
FkSession(sessionId) == sessionId = NoId \/ sessionId \in Ids(trainingSessions)
FkCatalog(catalogId) == catalogId = NoId \/ catalogId \in Ids(trainingCatalog)
FkUser(userId) == userId \in {MISSING, NULL} \/ getUser(userId) # {}

\* ------------------------------------------------------------------------
\* Training catalog
\* ------------------------------------------------------------------------
\* a cost as the form holds it: a decimal string with two fractional
\* digits, kept as its digits before and after the point ("250.00")
CostInputs == { [units |-> 250, cents |-> 0], [units |-> 0, cents |-> 29] }

\* an empty cost field (falsy: sent and stored as null, written NoId)
NoCost == [units |-> 0, cents |-> 0]

\* Math.round(parseFloat(cost) * 100): the error of the product is far
\* below one half, so the result is the exact number of cents
parseCost(cost) == cost.units * 100 + cost.cents

\* (cost / 100).toFixed(2) of the catalog page
formatCost(stored) == [units |-> stored \div 100, cents |-> stored % 100]

CatalogBody0 == [title |-> "OSHA Basics", type |-> "internal",
                 category |-> "safety", duration |-> 4,
                 providerName |-> MISSING, cost |-> NoId]

\* bodies as handleCreateTraining sends them (cost in cents), and bodies of
\* other clients; providerName and cost may be absent
CatalogBodies ==
  [title : {MISSING, "OSHA Basics"},
   type : {"internal", "external"},
   category : {"safety"},
   duration : {BadNum, 4},
   providerName : {MISSING},
   cost : {NoId}]
  \cup { [CatalogBody0 EXCEPT !.type = "external", !.providerName = p] :
           p \in {"", "Acme Training"} }
  \cup { [CatalogBody0 EXCEPT !.cost = parseCost(c)] : c \in CostInputs }

\* the row  insert(trainingCatalog).values(catalog).returning(); the parsed
\* payload holds the table's columns only (the schema drops providerName,
\* cost and every other key that is no column of training_catalog)
CatalogRow(data, createdBy) ==
  [id |-> NextId(trainingCatalog), title |-> data.title, type |-> data.type,
   category |-> data.category, duration |-> data.duration,
   createdBy |-> createdBy]

\* POST /api/training-catalog
PostTrainingCatalog ==
  \E req \in Requests(CatalogBodies, {"auth", "write"}, "mgr1", CatalogBody0) :
    LET route == "POST /api/training-catalog"
        rows == isAuthenticated(req.auth, req.fault)
        user == CHOOSE u \in rows : TRUE
    IN
    /\ UNCHANGED <<impl, disk>>
    /\ IF rows = {}
       THEN /\ Respond(route, req, 401, NoId)
            /\ UNCHANGED store
       ELSE IF ~insertTrainingCatalogSchema(req.body) \/ req.fault = "write"
       THEN /\ Respond(route, req, 400, NoId)
            /\ UNCHANGED store
       ELSE /\ Room(1)
            /\ trainingCatalog' = Append(trainingCatalog, CatalogRow(req.body, user.id))
            /\ Respond(route, req, 201, NextId(trainingCatalog))
            /\ UNCHANGED <<users, trainingSessions, trainingEnrollments,
                           trainingFeedback, effectivenessEvaluations,
                           evidenceAttachments, auditLogs>>

\* ------------------------------------------------------------------------
\* Training sessions
\* ------------------------------------------------------------------------
SessionBodies == [title : {MISSING, "Kickoff"},
                  duration : {2},
                  catalogId : {NoId, GhostId}]

SessionBody0 == [title |-> "Kickoff", duration |-> 2, catalogId |-> NoId]

\* the row  insert(trainingSessions).values(session).returning()
SessionRow(data, createdBy) ==
  [id |-> NextId(trainingSessions), title |-> data.title,
   duration |-> data.duration, catalogId |-> data.catalogId,
   createdBy |-> createdBy]

\* POST /api/training-sessions
PostTrainingSession ==
  \E req \in Requests(SessionBodies, {"auth", "write", "audit"}, "mgr1", SessionBody0) :
    LET route == "POST /api/training-sessions"
        rows == isAuthenticated(req.auth, req.fault)
        user == CHOOSE u \in rows : TRUE
        newId == NextId(trainingSessions)
    IN
    /\ UNCHANGED <<impl, disk>>
    /\ IF rows = {}
       THEN /\ Respond(route, req, 401, NoId)
            /\ UNCHANGED store
       ELSE IF \/ ~insertTrainingSessionSchema(req.body)
               \/ ~Has("createTrainingSession")
               \/ req.fault = "write"
               \/ ~FkCatalog(req.body.catalogId)
       THEN /\ Respond(route, req, 400, NoId)
            /\ UNCHANGED store
       ELSE /\ Room(1)
            /\ trainingSessions' = Append(trainingSessions, SessionRow(req.body, user.id))
            /\ UNCHANGED <<users, trainingCatalog, trainingEnrollments,
                           trainingFeedback, effectivenessEvaluations,
                           evidenceAttachments>>
            /\ IF ~Has("createAuditLog") \/ req.fault = "audit"
               THEN /\ Respond(route, req, 400, NoId)
                    /\ UNCHANGED auditLogs
               ELSE /\ Room(2)
                    /\ auditLogs' = createAuditLog("training_session", newId,
                                                   "create", NULL, user.id)
                    /\ Respond(route, req, 201, newId)

\* ------------------------------------------------------------------------
\* Training enrollments
\* ------------------------------------------------------------------------
Statuses == {"enrolled", "attended", "absent", "completed"}

EnrollmentBodies ==
  [sessionId : {NoId}, employeeId : {"emp1"}, status : {MISSING, BAD} \cup Statuses]
  \cup [sessionId : {1, GhostId}, employeeId : {"emp1"}, status : {MISSING}]
  \cup { [sessionId |-> NoId, employeeId |-> "emp1", status |-> "cancelled"] }

EnrollmentBody0 == [sessionId |-> NoId, employeeId |-> "emp1", status |-> MISSING]

\* the row  insert(trainingEnrollments).values(enrollment).returning();
\* status has the column default 'enrolled'
EnrollmentRow(data) ==
  [id |-> NextId(trainingEnrollments), sessionId |-> data.sessionId,
   employeeId |-> Col(data.employeeId),
   status |-> IF data.status = MISSING THEN "enrolled" ELSE data.status]

\* POST /api/training-enrollments
PostTrainingEnrollment ==
  \E req \in Requests(EnrollmentBodies, {"auth", "write", "audit"}, "emp1", EnrollmentBody0) :
    LET route == "POST /api/training-enrollments"
        rows == isAuthenticated(req.auth, req.fault)
        user == CHOOSE u \in rows : TRUE
        newId == NextId(trainingEnrollments)
    IN
    /\ UNCHANGED <<impl, disk>>
    /\ IF rows = {}
       THEN /\ Respond(route, req, 401, NoId)
            /\ UNCHANGED store
       ELSE IF \/ ~insertTrainingEnrollmentSchema(req.body)
               \/ ~Has("createTrainingEnrollment")
               \/ req.fault = "write"
               \/ ~FkSession(req.body.sessionId)
               \/ ~FkUser(req.body.employeeId)
       THEN /\ Respond(route, req, 400, NoId)
            /\ UNCHANGED store
       ELSE /\ Room(1)
            /\ trainingEnrollments' = Append(trainingEnrollments, EnrollmentRow(req.body))
            /\ UNCHANGED <<users, trainingCatalog, trainingSessions,
                           trainingFeedback, effectivenessEvaluations,
                           evidenceAttachments>>
            /\ IF ~Has("createAuditLog") \/ req.fault = "audit"
               THEN /\ Respond(route, req, 400, NoId)
                    /\ UNCHANGED auditLogs
               ELSE /\ Room(2)
                    /\ auditLogs' = createAuditLog("training_enrollment", newId,
                                                   "create", NULL, user.id)
                    /\ Respond(route, req, 201, newId)

\* variant: a column the payload leaves out is set to null
updateTrainingEnrollment_NullAbsent(id, data) ==
  [i \in 1..Len(trainingEnrollments) |->
     LET row == trainingEnrollments[i] IN
     IF row.id # id THEN row
     ELSE [id |-> row.id,
           sessionId |-> data.sessionId,
           employeeId |-> Col(data.employeeId),
           status |-> IF data.status = MISSING THEN row.status
                      ELSE data.status]]

\* update(trainingEnrollments).set({...enrollment, updatedAt}).where(eq(id)):
\* the fields present in the payload overwrite those of the row with that id
updateTrainingEnrollment(id, data) ==
  [i \in 1..Len(trainingEnrollments) |->
     LET row == trainingEnrollments[i] IN
     IF row.id # id THEN row
     ELSE [id |-> row.id,
           sessionId |-> IF data.sessionId = NoId THEN row.sessionId
                         ELSE data.sessionId,
           employeeId |-> IF data.employeeId = MISSING THEN row.employeeId
                          ELSE data.employeeId,
           status |-> IF data.status = MISSING THEN row.status
                      ELSE data.status]]

\* :id of PUT /api/training-enrollments/:id after parseInt (BadNum is NaN)
EnrollmentParams == {1, GhostId, BadNum}

EnrollmentUpdates ==
  { [id |-> 1, sessionId |-> b.sessionId, employeeId |-> MISSING,
     status |-> b.status] : b \in EnrollmentBodies }
  \cup { [id |-> id, sessionId |-> NoId, employeeId |-> MISSING,
          status |-> "completed"] : id \in EnrollmentParams }

EnrollmentUpdate0 ==
  [id |-> 1, sessionId |-> NoId, employeeId |-> MISSING, status |-> "completed"]

\* PUT /api/training-enrollments/:id
PutTrainingEnrollment ==
  \E req \in Requests(EnrollmentUpdates, {"auth", "write", "audit"}, "mgr1", EnrollmentUpdate0) :
    LET route == "PUT /api/training-enrollments/:id"
        rows == isAuthenticated(req.auth, req.fault)
        user == CHOOSE u \in rows : TRUE
        id == req.body.id
        matched == id \in Ids(trainingEnrollments)
    IN
    /\ UNCHANGED <<impl, disk>>
    /\ IF rows = {}
       THEN /\ Respond(route, req, 401, NoId)
            /\ UNCHANGED store
       ELSE IF \/ ~insertTrainingEnrollmentSchema(req.body)
               \/ ~Has("updateTrainingEnrollment")
               \/ req.fault = "write"
               \/ id = BadNum
               \/ (matched /\ ~FkSession(req.body.sessionId))
               \/ (matched /\ ~FkUser(req.body.employeeId))
       THEN /\ Respond(route, req, 400, NoId)
            /\ UNCHANGED store
       ELSE /\ trainingEnrollments' = updateTrainingEnrollment(id, req.body)
            /\ UNCHANGED <<users, trainingCatalog, trainingSessions,
                           trainingFeedback, effectivenessEvaluations,
                           evidenceAttachments>>
            /\ IF ~Has("createAuditLog") \/ req.fault = "audit"
               THEN /\ Respond(route, req, 400, NoId)
                    /\ UNCHANGED auditLogs
               ELSE /\ Room(1)
                    /\ auditLogs' = createAuditLog("training_enrollment", id,
                                                   "update", "validatedData", user.id)
                    /\ IF matched
                       THEN \* res.json(updated): the row returning() gave
                            RespondWith(route, req, 200, id,
                              (CHOOSE row \in
                                 { trainingEnrollments'[i] :
                                     i \in 1..Len(trainingEnrollments') } :
                                 row.id = id))
                       ELSE Respond(route, req, 200, NoId)

\* ------------------------------------------------------------------------
\* Users
\* ------------------------------------------------------------------------
UserBodies ==
  [username : {MISSING, "emp"}, password : {MISSING}, role : {MISSING, BAD}]
  \cup { [username |-> "new", password |-> "pw-n", role |-> MISSING] }

UserBody0 == [username |-> MISSING, password |-> MISSING, role |-> MISSING]

\* the row  insert(users).values(userData).returning(); id has the default
\* gen_random_uuid(), role the default 'employee'
UserRow(data) ==
  [id |-> NewUserId(Cardinality(users) - Cardinality(SeedUsers) + 1),
   username |-> Col(data.username),
   password |-> Col(data.password),
   role |-> IF data.role = MISSING THEN "employee" ELSE data.role]

\* username is a unique column
UniqueUsername(username) ==
  username = MISSING \/ getUserByUsername(username) = {}

\* POST /api/users
PostUser ==
  \E req \in Requests(UserBodies, {"auth", "role", "write", "audit"}, "hr1", UserBody0) :
    LET route == "POST /api/users"
        rows == isAuthenticated(req.auth, req.fault)
        user == CHOOSE u \in rows : TRUE
        currentUser == getUser(user.id)
    IN
    /\ UNCHANGED <<impl, disk>>
    /\ IF rows = {}
       THEN /\ Respond(route, req, 401, NoId)
            /\ UNCHANGED store
       ELSE IF req.fault = "role"
       THEN /\ Respond(route, req, 400, NoId)
            /\ UNCHANGED store
       ELSE IF Forbidden(currentUser, {"hr_admin"})
       THEN /\ Respond(route, req, 403, NoId)
            /\ UNCHANGED store
       ELSE IF \/ ~insertUserSchema(req.body)
               \/ req.fault = "write"
               \/ ~UniqueUsername(req.body.username)
       THEN /\ Respond(route, req, 400, NoId)
            /\ UNCHANGED store
       ELSE /\ Room(1)
            /\ users' = users \cup {UserRow(req.body)}
            /\ UNCHANGED <<trainingCatalog, trainingSessions, trainingEnrollments,
                           trainingFeedback, effectivenessEvaluations,
                           evidenceAttachments>>
            /\ IF ~Has("createAuditLog") \/ req.fault = "audit"
               THEN /\ Respond(route, req, 400, NoId)
                    /\ UNCHANGED auditLogs
               ELSE /\ Room(2)
                    /\ auditLogs' = createAuditLog("user", 0, "create", NULL, user.id)
                    /\ RespondWith(route, req, 201, NoId, UserRow(req.body))

\* ------------------------------------------------------------------------
\* Read routes and routes without a store write
\* ------------------------------------------------------------------------
\* the requests of a route without a body that any user may call
OpenRequests(faults) ==
  { [auth |-> a, fault |-> "none", body |-> NoBody] : a \in {MISSING, "emp1"} }
  \cup { [auth |-> "emp1", fault |-> f, body |-> NoBody] : f \in faults }

\* the requests of a role-gated route without a body
GatedRequests(faults) ==
  { [auth |-> a, fault |-> "none", body |-> NoBody] : a \in {MISSING} \cup Actors }
  \cup { [auth |-> a, fault |-> f, body |-> NoBody] :
            a \in {"emp1", "hr1"}, f \in faults }

\* isAuthenticated, then  try { res.json(await storage.method()) }
\* catch { res.status(500) }
ReadHandler(route, method) ==
  \E req \in OpenRequests({"read"}) :
    /\ UNCHANGED <<impl, store, disk>>
    /\ IF isAuthenticated(req.auth, req.fault) = {}
       THEN Respond(route, req, 401, NoId)
       ELSE IF ~Has(method) \/ req.fault = "read"
       THEN Respond(route, req, 500, NoId)
       ELSE Respond(route, req, 200, NoId)

\* isAuthenticated, then a handler that answers with one status whatever
\* the store does
FixedHandler(route, status) ==
  \E req \in OpenRequests({}) :
    /\ UNCHANGED <<impl, store, disk>>
    /\ IF isAuthenticated(req.auth, req.fault) = {}
       THEN Respond(route, req, 401, NoId)
       ELSE Respond(route, req, status, NoId)

\* isAuthenticated, then  currentUser = await storage.getUser(userId), the
\* role check, and a read of the store; the catch answers `caught`
GatedHandler(route, allow, method, ok, caught) ==
  \E req \in GatedRequests({"role", "read"}) :
    LET rows == isAuthenticated(req.auth, req.fault)
        user == CHOOSE u \in rows : TRUE
        currentUser == getUser(user.id)
    IN
    /\ UNCHANGED <<impl, store, disk>>
    /\ IF rows = {}
       THEN Respond(route, req, 401, NoId)
       ELSE IF req.fault = "role"
       THEN Respond(route, req, caught, NoId)
       ELSE IF Forbidden(currentUser, allow)
       THEN Respond(route, req, 403, NoId)
       ELSE IF (method # "none" /\ ~Has(method)) \/ req.fault = "read"
       THEN Respond(route, req, caught, NoId)
       ELSE Respond(route, req, ok, NoId)

\* GET /api/auth/user
GetAuthUser ==
  \E req \in OpenRequests({}) \cup
             { [auth |-> a, fault |-> "none", body |-> NoBody] : a \in Headers } :
    LET route == "GET /api/auth/user"
        rows == isAuthenticated(req.auth, req.fault)
    IN
    /\ UNCHANGED <<impl, store, disk>>
    /\ IF rows = {}
       THEN Respond(route, req, 401, NoId)
       ELSE RespondWith(route, req, 200, NoId,
                        withoutPassword(CHOOSE u \in rows : TRUE))

\* Math.round(num / den) for num >= 0 and den > 0
Round(num, den) == (2 * num + den) \div (2 * den)

\* select count() ... where status = ...
CountStatus(status) ==
  Cardinality({ k \in 1..Len(trainingEnrollments) :
                  trainingEnrollments[k].status = status })

\* getComplianceMetrics of the storage module i; overallCompliance is kept
\* in tenths of a percent.  storage-simple divides by all users times 3 and
\* rounds to a whole percent; storage divides by the users of role employee
\* times 5 and rounds to one decimal.  Both answer a failing query with
\* sample data.
getComplianceMetrics(i, fault) ==
  LET totalUsers == Cardinality(users)
      totalEmployees == Cardinality({ u \in users : u.role = "employee" })
      completed == CountStatus("completed")
      pending == CountStatus("enrolled")
  IN IF i = "simple"
     THEN IF fault = "read"
          THEN [overallCompliance |-> 915, pendingTrainings |-> 2,
                activeEmployees |-> 3]
          ELSE [overallCompliance |->
                  IF totalUsers # 0
                  THEN 10 * Round(completed * 100, totalUsers * 3) ELSE 0,
                pendingTrainings |-> pending,
                activeEmployees |-> totalUsers]
     ELSE IF fault = "read"
          THEN [overallCompliance |-> 915, pendingTrainings |-> 14,
                activeEmployees |-> 156]
          ELSE [overallCompliance |->
                  IF totalEmployees > 0
                  THEN Round(completed * 1000, totalEmployees * 5) ELSE 0,
                pendingTrainings |-> pending,
                activeEmployees |-> totalUsers]

\* the requests of the dashboard routes
DashboardRequests ==
  OpenRequests({"read"})
  \cup { [auth |-> "hr1", fault |-> "none", body |-> NoBody] }

\* GET /api/dashboard/metrics: getComplianceMetrics catches its own errors
GetDashboardMetrics ==
  \E req \in DashboardRequests :
    /\ UNCHANGED <<impl, store, disk>>
    /\ IF isAuthenticated(req.auth, req.fault) = {}
       THEN Respond("GET /api/dashboard/metrics", req, 401, NoId)
       ELSE RespondWith("GET /api/dashboard/metrics", req, 200, NoId,
                        getComplianceMetrics(impl, req.fault))

\* parseInt(emp.id) as the query receives it: the number an id of digits
\* stands for, NaN for any other id of the model
parseInt(id) == IF id = "7" THEN "7" ELSE "NaN"

\* getEmployeeCompliance of storage-simple: one entry per row of users, with
\* the enrollments whose employeeId equals parseInt(emp.id); a failing query
\* is answered with one sample entry
getEmployeeCompliance(fault) ==
  IF fault = "read"
  THEN { [employeeId |-> "1", complianceStatus |-> "Compliant"] }
  ELSE { [employeeId |-> emp.id,
          complianceStatus |->
            IF \E k \in 1..Len(trainingEnrollments) :
                 /\ trainingEnrollments[k].employeeId = parseInt(emp.id)
                 /\ trainingEnrollments[k].status = "completed"
            THEN "Compliant" ELSE "Non-Compliant"] : emp \in users }

\* GET /api/dashboard/employee-compliance: the route calls
\* storage.getEmployeeCompliance, which only storage-simple has
GetEmployeeCompliance ==
  \E req \in DashboardRequests :
    /\ UNCHANGED <<impl, store, disk>>
    /\ IF isAuthenticated(req.auth, req.fault) = {}
       THEN Respond("GET /api/dashboard/employee-compliance", req, 401, NoId)
       ELSE IF ~Has("getEmployeeCompliance")
       THEN Respond("GET /api/dashboard/employee-compliance", req, 500, NoId)
       ELSE RespondWith("GET /api/dashboard/employee-compliance", req, 200,
                        NoId, getEmployeeCompliance(req.fault))

\* GET /api/training-catalog
GetTrainingCatalog == ReadHandler("GET /api/training-catalog", "getTrainingCatalog")

\* PUT /api/training-catalog/:id
PutTrainingCatalog == FixedHandler("PUT /api/training-catalog/:id", 501)

\* GET /api/training-sessions
GetTrainingSessions == ReadHandler("GET /api/training-sessions", "getTrainingSessions")

\* GET /api/training-sessions/calendar
GetSessionsCalendar ==
  ReadHandler("GET /api/training-sessions/calendar", "getTrainingSessionsByDateRange")

\* GET /api/training-enrollments
GetTrainingEnrollments ==
  ReadHandler("GET /api/training-enrollments", "getTrainingEnrollments")

\* GET /api/training-enrollments/employee/:employeeId
GetEnrollmentsByEmployee ==
  ReadHandler("GET /api/training-enrollments/employee/:employeeId",
              "getEnrollmentsByEmployee")

\* GET /api/training-feedback
GetTrainingFeedback == ReadHandler("GET /api/training-feedback", "getTrainingFeedback")

\* req.user.claims.sub: req.user is the users row isAuthenticated stored; a
\* row without claims makes the expression throw a TypeError
claimsSub(user) ==
  IF "claims" \in DOMAIN user THEN user.claims.sub ELSE "TypeError"

\* the requests of a route with a body and no role check
BodyRequests(Bodies, a0) ==
  { [auth |-> a, fault |-> "none", body |-> b] : a \in {MISSING, a0}, b \in Bodies }

\* insertTrainingFeedbackSchema.parse: the four ratings are notNull (the
\* model carries one of them), the references are nullable
insertTrainingFeedbackSchema(data) ==
  /\ OptNumber(data.enrollmentId)
  /\ OptString(data.employeeId)
  /\ IsNumber(data.overallRating)

FeedbackBodies == [enrollmentId : {NoId}, employeeId : {MISSING},
                   overallRating : {BadNum, 5}]

FeedbackRow(data) ==
  [id |-> NextId(trainingFeedback), enrollmentId |-> data.enrollmentId,
   employeeId |-> Col(data.employeeId), overallRating |-> data.overallRating]

\* POST /api/training-feedback: the payload is built from req.body and
\* req.user.claims.sub inside the try block
PostTrainingFeedback ==
  \E req \in BodyRequests(FeedbackBodies, "emp1") :
    LET route == "POST /api/training-feedback"
        rows == isAuthenticated(req.auth, req.fault)
        user == CHOOSE u \in rows : TRUE
        data == [req.body EXCEPT !.employeeId = claimsSub(user)]
        newId == NextId(trainingFeedback)
    IN
    /\ UNCHANGED <<impl, disk, users, trainingCatalog, trainingSessions,
                   trainingEnrollments, effectivenessEvaluations,
                   evidenceAttachments>>
    /\ IF rows = {}
       THEN /\ Respond(route, req, 401, NoId)
            /\ UNCHANGED <<trainingFeedback, auditLogs>>
       ELSE IF \/ claimsSub(user) = "TypeError"
               \/ ~insertTrainingFeedbackSchema(data)
               \/ ~Has("createTrainingFeedback")
               \/ ~FkUser(data.employeeId)
       THEN /\ Respond(route, req, 400, NoId)
            /\ UNCHANGED <<trainingFeedback, auditLogs>>
       ELSE /\ Room(1)
            /\ trainingFeedback' = Append(trainingFeedback, FeedbackRow(data))
            /\ IF ~Has("createAuditLog")
               THEN /\ Respond(route, req, 400, NoId)
                    /\ UNCHANGED auditLogs
               ELSE /\ Room(2)
                    /\ auditLogs' = createAuditLog("training_feedback", newId,
                                                   "create", NULL, user.id)
                    /\ Respond(route, req, 201, newId)

\* GET /api/effectiveness-evaluations
GetEvaluations ==
  GatedHandler("GET /api/effectiveness-evaluations", Roles,
               "getEvaluationsByManager", 200, 500)

\* insertEffectivenessEvaluationSchema.parse: overallEffectiveness is
\* notNull (evaluationDate is taken as given), the references are nullable
insertEffectivenessEvaluationSchema(data) ==
  /\ OptNumber(data.enrollmentId)
  /\ OptString(data.employeeId)
  /\ OptString(data.managerId)
  /\ IsNumber(data.overallEffectiveness)

EvaluationBodies == [enrollmentId : {NoId}, employeeId : {"emp1"},
                     managerId : {MISSING}, overallEffectiveness : {BadNum, 4}]

EvaluationRow(data) ==
  [id |-> NextId(effectivenessEvaluations), enrollmentId |-> data.enrollmentId,
   employeeId |-> Col(data.employeeId), managerId |-> Col(data.managerId),
   overallEffectiveness |-> data.overallEffectiveness]

\* POST /api/effectiveness-evaluations: the payload is built from req.body
\* and req.user.claims.sub inside the try block
PostEvaluation ==
  \E req \in BodyRequests(EvaluationBodies, "mgr1") :
    LET route == "POST /api/effectiveness-evaluations"
        rows == isAuthenticated(req.auth, req.fault)
        user == CHOOSE u \in rows : TRUE
        data == [req.body EXCEPT !.managerId = claimsSub(user)]
        newId == NextId(effectivenessEvaluations)
    IN
    /\ UNCHANGED <<impl, disk, users, trainingCatalog, trainingSessions,
                   trainingEnrollments, trainingFeedback, evidenceAttachments>>
    /\ IF rows = {}
       THEN /\ Respond(route, req, 401, NoId)
            /\ UNCHANGED <<effectivenessEvaluations, auditLogs>>
       ELSE IF \/ claimsSub(user) = "TypeError"
               \/ ~insertEffectivenessEvaluationSchema(data)
               \/ ~Has("createEffectivenessEvaluation")
               \/ ~FkUser(data.employeeId)
               \/ ~FkUser(data.managerId)
       THEN /\ Respond(route, req, 400, NoId)
            /\ UNCHANGED <<effectivenessEvaluations, auditLogs>>
       ELSE /\ Room(1)
            /\ effectivenessEvaluations' =
                 Append(effectivenessEvaluations, EvaluationRow(data))
            /\ IF ~Has("createAuditLog")
               THEN /\ Respond(route, req, 400, NoId)
                    /\ UNCHANGED auditLogs
               ELSE /\ Room(2)
                    /\ auditLogs' = createAuditLog("effectiveness_evaluation",
                                                   newId, "create", NULL, user.id)
                    /\ Respond(route, req, 201, newId)

\* GET /api/evidence-attachments/:id/download: no attachment row exists
GetAttachmentDownload ==
  \E req \in OpenRequests({"read"}) :
    LET route == "GET /api/evidence-attachments/:id/download" IN
    /\ UNCHANGED <<impl, store, disk>>
    /\ IF isAuthenticated(req.auth, req.fault) = {}
       THEN Respond(route, req, 401, NoId)
       ELSE IF ~Has("getEvidenceAttachments") \/ req.fault = "read"
       THEN Respond(route, req, 500, NoId)
       ELSE IF Len(evidenceAttachments) = 0
       THEN Respond(route, req, 404, NoId)
       ELSE Respond(route, req, 200, NoId)

\* GET /api/users (without ?department or ?role: storage.getAllUsers)
GetUsers ==
  \E req \in GatedRequests({"role", "read"}) :
    LET route == "GET /api/users"
        rows == isAuthenticated(req.auth, req.fault)
        user == CHOOSE u \in rows : TRUE
        currentUser == getUser(user.id)
    IN
    /\ UNCHANGED <<impl, store, disk>>
    /\ IF rows = {}
       THEN Respond(route, req, 401, NoId)
       ELSE IF req.fault = "role"
       THEN Respond(route, req, 500, NoId)
       ELSE IF Forbidden(currentUser, {"hr_admin"})
       THEN Respond(route, req, 403, NoId)
       ELSE IF ~Has("getAllUsers") \/ req.fault = "read"
       THEN Respond(route, req, 500, NoId)
       ELSE RespondWith(route, req, 200, NoId, users)

\* GET /api/departments
GetDepartments ==
  GatedHandler("GET /api/departments", {"hr_admin", "manager"}, "getAllUsers", 200, 500)

\* POST /api/departments
PostDepartment ==
  GatedHandler("POST /api/departments", {"hr_admin"}, "none", 201, 400)

\* the limit of a request without ?limit
DefaultLimit == 100

\* performedAt: new Date() of the insert; a later insert reads a later clock
performedAt(row) == row.id

Min(a, b) == IF a <= b THEN a ELSE b

\* storage.ts: select().from(auditLogs).orderBy(desc(performedAt)).limit(limit)
getAuditLogs(limit) ==
  LET n == Len(auditLogs)
  IN [j \in 1..Min(limit, n) |-> auditLogs[n - j + 1]]

\* the query strings of GET /api/audit-logs: none, ?limit=k, and a limit
\* that parseInt turns into NaN or a negative number (BadNum)
LimitQueries == {NoBody} \cup { [limit |-> k] : k \in {BadNum, 0, 1, 2, 3} }

\* req.query.limit ? parseInt(req.query.limit) : 100
queryLimit(query) == IF query = NoBody THEN DefaultLimit ELSE query.limit

\* GET /api/audit-logs
GetAuditLogs ==
  \E req \in Requests(LimitQueries, {"role", "read"}, "hr1", NoBody) :
    LET route == "GET /api/audit-logs"
        rows == isAuthenticated(req.auth, req.fault)
        user == CHOOSE u \in rows : TRUE
        currentUser == getUser(user.id)
        limit == queryLimit(req.body)
    IN
    /\ UNCHANGED <<impl, store, disk>>
    /\ IF rows = {}
       THEN Respond(route, req, 401, NoId)
       ELSE IF req.fault = "role"
       THEN Respond(route, req, 500, NoId)
       ELSE IF Forbidden(currentUser, {"hr_admin"})
       THEN Respond(route, req, 403, NoId)
       ELSE IF ~Has("getAuditLogs") \/ req.fault = "read" \/ limit < 0
       THEN Respond(route, req, 500, NoId)
       ELSE RespondWith(route, req, 200, NoId, getAuditLogs(limit))

\* ------------------------------------------------------------------------
\* Uploads (multer)
\* ------------------------------------------------------------------------
XlsxMime == "application/vnd.openxmlformats-officedocument.spreadsheetml.sheet"

\* the strings of the model that  /jpeg|jpg|png|pdf|doc|docx|ppt|pptx/.test
\* accepts: those with one of the alternatives as a substring
allowedTypes(str) == str \in {".docx", ".pdf", "application/pdf", XlsxMime}

\* variant: one of extension and MIME type passing is enough
fileFilter_Either(file) == allowedTypes(file.ext) \/ allowedTypes(file.mimetype)

\* fileFilter: extension and MIME type must both pass the pattern
fileFilter(file) == allowedTypes(file.ext) /\ allowedTypes(file.mimetype)

\* rows of an uploaded sheet as sheet_to_json returns them
GoodRow == [title |-> "OSHA Basics", type |-> "internal", category |-> "safety",
            duration |-> 4, providerName |-> MISSING, cost |-> NoCost]
NoTitleRow == [GoodRow EXCEPT !.title = MISSING]
NoProviderRow == [GoodRow EXCEPT !.type = "external"]

SheetRows == {GoodRow, NoTitleRow, NoProviderRow}

Sheets == UNION { [1..n -> SheetRows] : n \in 0..MaxSheetRows }

NoUpload == [ext |-> MISSING, mimetype |-> MISSING, big |-> FALSE, sheet |-> <<>>]

\* a spreadsheet under its own name and type
XlsxUpload == [ext |-> ".xlsx", mimetype |-> XlsxMime, big |-> FALSE,
               sheet |-> <<GoodRow>>]

\* the same content under a name the file filter accepts
Upload(sheet) == [ext |-> ".docx", mimetype |-> XlsxMime, big |-> FALSE,
                  sheet |-> sheet]

BigUpload == [Upload(<<GoodRow>>) EXCEPT !.big = TRUE]

\* templateData: the two illustrative rows, in the columns the model keeps
TemplateData ==
  << [title |-> "OSHA Safety Fundamentals", type |-> "internal",
      category |-> "safety", duration |-> 4, providerName |-> "",
      cost |-> NoCost],
     [title |-> "External Fire Safety Training", type |-> "external",
      category |-> "safety", duration |-> 6,
      providerName |-> "Fire Safety Institute",
      cost |-> [units |-> 250, cents |-> 0]] >>

\* the download: training-catalog-template.xlsx with the spreadsheet
\* Content-Type, sent back as it was saved
TemplateFile == [ext |-> ".xlsx", mimetype |-> XlsxMime, big |-> FALSE,
                 sheet |-> TemplateData]

\* GET /api/training-catalog/template
GetCatalogTemplate ==
  \E req \in GatedRequests({"role"}) :
    LET route == "GET /api/training-catalog/template"
        rows == isAuthenticated(req.auth, req.fault)
        user == CHOOSE u \in rows : TRUE
        currentUser == getUser(user.id)
    IN
    /\ UNCHANGED <<impl, store, disk>>
    /\ IF rows = {}
       THEN Respond(route, req, 401, NoId)
       ELSE IF req.fault = "role"
       THEN Respond(route, req, 500, NoId)
       ELSE IF Forbidden(currentUser, {"hr_admin", "manager"})
       THEN Respond(route, req, 403, NoId)
       ELSE RespondWith(route, req, 200, NoId, TemplateFile)

\* diskStorage filename: a name no file in the uploads directory has
filename == CHOOSE n \in 1..(Cardinality(files) + 1) : n \notin files

\* upload.single(field): "none" (no file part), "rejected" (fileFilter or
\* the 10 MB limit: the error goes to the error middleware and no file
\* stays on disk) or "stored" (the file is written to the uploads directory)
uploadSingle(file) ==
  IF file.ext = MISSING THEN "none"
  ELSE IF ~fileFilter(file) \/ file.big THEN "rejected"
  ELSE "stored"

\* POST /api/evidence-attachments
PostEvidenceAttachment ==
  \E req \in Requests({NoUpload, XlsxUpload, BigUpload, Upload(<<>>)},
                      {"auth"}, "emp1", Upload(<<>>)) :
    LET route == "POST /api/evidence-attachments"
        rows == isAuthenticated(req.auth, req.fault)
        up == uploadSingle(req.body)
    IN
    /\ UNCHANGED <<impl, store>>
    /\ IF rows = {}
       THEN /\ Respond(route, req, 401, NoId)
            /\ UNCHANGED disk
       ELSE IF up = "rejected"
       THEN /\ Respond(route, req, 500, NoId)
            /\ UNCHANGED disk
       ELSE IF up = "none"
       THEN /\ Respond(route, req, 400, NoId)
            /\ UNCHANGED disk
       ELSE \* uploadedBy: req.user.claims.sub throws; the catch answers 400
            /\ Room(1)
            /\ files' = files \cup {filename}
            /\ Respond(route, req, 400, NoId)

\* ------------------------------------------------------------------------
\* Bulk import
\* ------------------------------------------------------------------------
\* .toString().toLowerCase() on the values of the model
toLowerCase(v) == IF v = "Internal" THEN "internal" ELSE v

\* .toString().trim() || null
trimOrNull(v) == IF v \in {MISSING, ""} THEN NULL ELSE v

\* trainingData of a row (the columns of the model)
trainingData(row) ==
  [title |-> row.title, type |-> toLowerCase(row.type),
   category |-> toLowerCase(row.category), duration |-> row.duration,
   providerName |-> trimOrNull(row.providerName),
   cost |-> IF row.cost = NoCost THEN NoId ELSE parseCost(row.cost)]

\* the error entry of a row, "none" if the row is imported
RowError(row, fault, i) ==
  IF row.title = MISSING \/ row.type = MISSING \/ row.category = MISSING
     \/ row.duration = NoId
  THEN "Missing required fields: title, type, category, duration"
  ELSE IF row.type = "external" /\ row.providerName = MISSING
  THEN "Provider name is required for external training"
  ELSE IF ~insertTrainingCatalogSchema(trainingData(row))
  THEN "validation"
  ELSE IF fault = "write" /\ i = 1
  THEN "insert failed"
  ELSE "none"

\* variant: the loop ends at the first row that fails
RECURSIVE ImportRows_AbortOnError(_, _, _, _, _)
ImportRows_AbortOnError(sheet, i, fault, userId, acc) ==
  IF i > Len(sheet) THEN acc
  ELSE LET err == RowError(sheet[i], fault, i) IN
       IF err = "none"
       THEN ImportRows_AbortOnError(sheet, i + 1, fault, userId,
              [catalog |-> Append(acc.catalog,
                                  [id |-> Len(acc.catalog) + 1,
                                   title |-> trainingData(sheet[i]).title,
                                   type |-> trainingData(sheet[i]).type,
                                   category |-> trainingData(sheet[i]).category,
                                   duration |-> trainingData(sheet[i]).duration,
                                   createdBy |-> userId]),
               success |-> acc.success + 1,
               errors |-> acc.errors])
       ELSE [catalog |-> acc.catalog,
             success |-> acc.success,
             errors |-> Append(acc.errors, [row |-> i + 1, error |-> err])]

\* the row loop from data row i on: acc is the catalog, the success count
\* and the error entries so far
RECURSIVE ImportRows(_, _, _, _, _)
ImportRows(sheet, i, fault, userId, acc) ==
  IF i > Len(sheet) THEN acc
  ELSE LET err == RowError(sheet[i], fault, i) IN
       IF err = "none"
       THEN ImportRows(sheet, i + 1, fault, userId,
              [catalog |-> Append(acc.catalog,
                                  [id |-> Len(acc.catalog) + 1,
                                   title |-> trainingData(sheet[i]).title,
                                   type |-> trainingData(sheet[i]).type,
                                   category |-> trainingData(sheet[i]).category,
                                   duration |-> trainingData(sheet[i]).duration,
                                   createdBy |-> userId]),
               success |-> acc.success + 1,
               errors |-> acc.errors])
       ELSE ImportRows(sheet, i + 1, fault, userId,
              [catalog |-> acc.catalog,
               success |-> acc.success,
               errors |-> Append(acc.errors, [row |-> i + 1, error |-> err])])

BulkUploads ==
  {NoUpload, XlsxUpload, BigUpload, TemplateFile} \cup { Upload(sh) : sh \in Sheets }

\* POST /api/training-catalog/bulk-import for the requests reqs, while the
\* store has at most cap rows; status 0: the handler's promise rejects in its
\* catch block and no response is sent
BulkImport(reqs, cap) ==
  \E req \in reqs :
    LET route == "POST /api/training-catalog/bulk-import"
        rows == isAuthenticated(req.auth, req.fault)
        user == CHOOSE u \in rows : TRUE
        currentUser == getUser(user.id)
        up == uploadSingle(req.body)
        path == filename
        written == IF up = "stored" THEN {path} ELSE {}
        done == ImportRows(req.body.sheet, 1, req.fault, user.id,
                           [catalog |-> trainingCatalog, success |-> 0,
                            errors |-> <<>>])
    IN
    /\ UNCHANGED <<impl, users, trainingSessions, trainingEnrollments,
                   trainingFeedback, effectivenessEvaluations, evidenceAttachments>>
    /\ IF rows = {}
       THEN /\ Respond(route, req, 401, NoId)
            /\ UNCHANGED <<trainingCatalog, auditLogs, disk>>
       ELSE IF up = "rejected"
       THEN /\ Respond(route, req, 500, NoId)
            /\ UNCHANGED <<trainingCatalog, auditLogs, disk>>
       ELSE /\ up = "stored" => StoreRows + 1 <= cap
            /\ IF req.fault = "role"
               THEN \* catch: unlinkSync, 500
                    /\ files' = files
                    /\ Respond(route, req, 500, NoId)
                    /\ UNCHANGED <<trainingCatalog, auditLogs>>
               ELSE IF Forbidden(currentUser, {"hr_admin", "manager"})
               THEN /\ files' = files \cup written
                    /\ Respond(route, req, 403, NoId)
                    /\ UNCHANGED <<trainingCatalog, auditLogs>>
               ELSE IF up = "none"
               THEN /\ files' = files
                    /\ Respond(route, req, 400, NoId)
                    /\ UNCHANGED <<trainingCatalog, auditLogs>>
               ELSE /\ StoreRows + done.success <= cap
                    /\ trainingCatalog' = done.catalog
                    /\ IF req.fault = "unlink"
                       THEN \* unlinkSync throws, and again in the catch
                            /\ files' = files \cup written
                            /\ Respond(route, req, 0, done.success)
                            /\ UNCHANGED auditLogs
                       ELSE IF ~Has("createAuditLog") \/ req.fault = "audit"
                       THEN \* the catch unlinks the removed file and throws
                            /\ files' = files
                            /\ Respond(route, req, 0, done.success)
                            /\ UNCHANGED auditLogs
                       ELSE /\ StoreRows + done.success + 1 <= cap
                            /\ files' = files
                            /\ auditLogs' = createAuditLog("training_catalog", 0,
                                 "bulk_import",
                                 [totalRows |-> Len(req.body.sheet),
                                  successCount |-> done.success,
                                  errorCount |-> Len(done.errors)],
                                 user.id)
                            /\ RespondWith(route, req, 200, done.success, done.errors)

\* POST /api/training-catalog/bulk-import among the other routes
PostBulkImport ==
  BulkImport(Requests(BulkUploads, {"auth", "role", "write", "unlink", "audit"},
                      "mgr1", Upload(<<GoodRow>>)),
             MaxStoreRows)

\* the sheets of up to MaxImportRows data rows
LongSheets == UNION { [1..n -> SheetRows] : n \in 0..MaxImportRows }

\* POST /api/training-catalog/bulk-import with the longer sheets
PostSheetImport ==
  BulkImport(Requests({ Upload(sh) : sh \in LongSheets },
                      {"write", "unlink", "audit"}, "mgr1", Upload(<<GoodRow>>)),
             MaxImportStore)


Next ==
  \/ Login
  \/ Logout
  \/ PostTrainingCatalog
  \/ PostTrainingSession
  \/ PostTrainingEnrollment
  \/ PutTrainingEnrollment
  \/ PostUser
  \/ GetAuthUser
  \/ GetDashboardMetrics
  \/ GetEmployeeCompliance
  \/ GetTrainingCatalog
  \/ PutTrainingCatalog
  \/ GetTrainingSessions
  \/ GetSessionsCalendar
  \/ GetTrainingEnrollments
  \/ GetEnrollmentsByEmployee
  \/ GetTrainingFeedback
  \/ PostTrainingFeedback
  \/ GetEvaluations
  \/ PostEvaluation
  \/ GetAttachmentDownload
  \/ GetUsers
  \/ GetDepartments
  \/ PostDepartment
  \/ GetAuditLogs
  \/ GetCatalogTemplate
  \/ PostEvidenceAttachment
  \/ PostBulkImport

Spec == Init /\ [][Next]_vars

\* the server receiving bulk imports only
ImportNext == PostSheetImport

ImportSpec == Init /\ [][ImportNext]_vars

\* users a database may hold: the seeded ones and an employee whose id is
\* a number
UserPool ==
  SeedUsers \cup { [id |-> "7", username |-> "op", password |-> "pw-o",
                    role |-> "employee"] }

\* the enrollments tables of up to MaxEnrollments rows for the users us
EnrollmentTables(us) ==
  UNION { { t \in [1..n -> [id : 1..n, sessionId : {NoId},
                           employeeId : { u.id : u \in us },
                           status : {"enrolled", "completed"}]] :
              \A k \in 1..n : t[k].id = k } : n \in 0..MaxEnrollments }

\* a server started on a database that already holds users and enrollments
MetricsInit ==
  /\ impl \in Impls
  /\ users \in SUBSET UserPool
  /\ trainingEnrollments \in EnrollmentTables(users)
  /\ trainingCatalog = <<>>
  /\ trainingSessions = <<>>
  /\ trainingFeedback = <<>>
  /\ effectivenessEvaluations = <<>>
  /\ evidenceAttachments = <<>>
  /\ auditLogs = <<>>
  /\ files = {}
  /\ last = Response("start", NoRequest, 0, NoId)

\* the dashboard routes
MetricsNext == GetDashboardMetrics \/ GetEmployeeCompliance

MetricsSpec == MetricsInit /\ [][MetricsNext]_vars

\* ------------------------------------------------------------------------
\* Properties
\* ------------------------------------------------------------------------
\* the header of the request resolves to a user of the store
Known(auth) == \E u \in users : u.id = auth

RoleOf(auth) == (CHOOSE u \in users : u.id = auth).role

MutatingStore == <<users, trainingCatalog, trainingSessions, trainingEnrollments,
                   trainingFeedback, effectivenessEvaluations,
                   evidenceAttachments, auditLogs, files>>

\* C1 as stated: every request to a route other than /api/login that has no
\* Authorization header, or one that is no user's id, is answered 401 and
\* leaves every table, the audit log and the uploads directory as they were.
C1_Unauthenticated401 ==
  [][(last'.route # "POST /api/login" /\ ~Known(last'.auth))
       => (last'.status = 401 /\ MutatingStore' = MutatingStore)]_vars

\* C1, amended: the same for every route other than /api/login and
\* /api/logout (logout is registered without the guard).
C1_Unauthenticated401ExceptLogout ==
  [][(last'.route \notin {"POST /api/login", "POST /api/logout"}
        /\ ~Known(last'.auth))
       => (last'.status = 401 /\ MutatingStore' = MutatingStore)]_vars

\* C1 witness: an upload to the bulk import with a header that is no user's
\* id was answered 401, on a store that already has rows.
C1_Witness ==
  /\ last.route = "POST /api/training-catalog/bulk-import"
  /\ last.auth = "ghost"
  /\ last.body.ext = ".docx"
  /\ last.status = 401
  /\ StoreRows > 0

\* the allow-list of the role-gated routes
C2_Allow(route) ==
  CASE route \in {"GET /api/users", "POST /api/users", "POST /api/departments",
                  "GET /api/audit-logs"} -> {"hr_admin"}
    [] route \in {"GET /api/departments", "GET /api/training-catalog/template",
                  "POST /api/training-catalog/bulk-import"} -> {"hr_admin", "manager"}
    [] OTHER -> Roles

C3_CreatedByManagers ==
  /\ \A i \in 1..Len(trainingCatalog) :
       RoleOf(trainingCatalog[i].createdBy) \in {"manager", "hr_admin"}
  /\ \A i \in 1..Len(trainingSessions) :
       RoleOf(trainingSessions[i].createdBy) \in {"manager", "hr_admin"}

\* an audit row of the given action on the given record
Audited(entityType, entityId, action) ==
  \E k \in 1..Len(auditLogs) :
    /\ auditLogs[k].entityType = entityType
    /\ auditLogs[k].entityId = entityId
    /\ auditLogs[k].action = action

\* C4: a session or enrollment is in the store if and only if the audit row
\* of its creation is, and an enrollment update is audited only for an
\* enrollment that is in the store.
C4_MutationIffAudit ==
  /\ \A i \in 1..Len(trainingSessions) :
       Audited("training_session", trainingSessions[i].id, "create")
  /\ \A i \in 1..Len(trainingEnrollments) :
       Audited("training_enrollment", trainingEnrollments[i].id, "create")
  /\ \A k \in 1..Len(auditLogs) :
       /\ auditLogs[k].entityType = "training_session"
            => auditLogs[k].entityId \in Ids(trainingSessions)
       /\ auditLogs[k].entityType = "training_enrollment"
            => auditLogs[k].entityId \in Ids(trainingEnrollments)

\* what the audit row of a successful mutating request must say
C5_EntityType(route) ==
  CASE route = "POST /api/users" -> "user"
    [] route = "POST /api/training-catalog" -> "training_catalog"
    [] route = "POST /api/training-sessions" -> "training_session"
    [] route = "POST /api/training-feedback" -> "training_feedback"
    [] route = "POST /api/effectiveness-evaluations" -> "effectiveness_evaluation"
    [] route = "POST /api/evidence-attachments" -> "evidence_attachment"
    [] OTHER -> "training_enrollment"

C5_Routes ==
  {"POST /api/users", "POST /api/training-catalog", "POST /api/training-sessions",
   "POST /api/training-enrollments", "PUT /api/training-enrollments/:id",
   "POST /api/training-feedback", "POST /api/effectiveness-evaluations",
   "POST /api/evidence-attachments"}

\* C5: every successful mutating request appends exactly one audit row, by
\* the authenticated user, of the kind of the mutation, on the record that
\* was mutated.
C5_OneAuditPerMutation ==
  [][(last'.route \in C5_Routes /\ last'.status \in {200, 201})
       => /\ Len(auditLogs') = Len(auditLogs) + 1
          /\ LET row == auditLogs'[Len(auditLogs')] IN
             /\ row.performedBy = last'.auth
             /\ row.action = IF last'.route = "PUT /api/training-enrollments/:id"
                             THEN "update" ELSE "create"
             /\ row.entityType = C5_EntityType(last'.route)
             /\ row.entityId # NoId
             /\ row.entityId = last'.result]_vars

\* C6: the audit log only grows, and an entry keeps its fields.
C6_AuditAppendOnly ==
  [][/\ Len(auditLogs') >= Len(auditLogs)
     /\ \A k \in 1..Len(auditLogs) : auditLogs'[k] = auditLogs[k]]_vars

\* C6 witness: the log holds two entries, the second appended after the
\* first by the last request.
C6_Witness ==
  /\ Len(auditLogs) = 2
  /\ last.status \in {200, 201}
  /\ auditLogs[1].id = 1
  /\ auditLogs[2].id = 2

\* a payload with a required field missing or a field of the wrong shape
C7_Invalid(route, body) ==
  CASE route = "POST /api/training-catalog" ->
         \/ body.title \in {MISSING, BAD}
         \/ body.type \in {MISSING, BAD}
         \/ body.category \in {MISSING, BAD}
         \/ body.duration \in {NoId, BadNum}
    [] route = "POST /api/training-sessions" ->
         \/ body.title \in {MISSING, BAD}
         \/ body.duration \in {NoId, BadNum}
         \/ body.catalogId = BadNum
    [] route = "POST /api/training-enrollments" ->
         \/ body.sessionId = BadNum
         \/ body.employeeId = BAD
         \/ body.status = BAD
    [] route = "POST /api/users" ->
         \/ body.username = BAD
         \/ body.role = BAD
    [] OTHER -> FALSE

\* C7: a create request with an invalid payload leaves every table and the
\* audit log as they were, and is answered 400 when it is by a user who may
\* call the route.
C7_InvalidPersistsNothing ==
  [][C7_Invalid(last'.route, last'.body)
       => /\ store' = store
          /\ (Known(last'.auth) /\ RoleOf(last'.auth) \in C2_Allow(last'.route))
               => last'.status = 400]_vars

\* C7 witness: a catalog entry without title was answered 400.
C7_Witness ==
  /\ last.route = "POST /api/training-catalog"
  /\ last.body.title = MISSING
  /\ last.body.duration = 4
  /\ last.auth = "mgr1"
  /\ last.status = 400

\* C8: no enrollment's status moves backwards along
\* enrolled -> attended/absent -> completed.
C8_StatusMonotonic ==
  [][\A i \in 1..Len(trainingEnrollments) :
       StatusRank(trainingEnrollments'[i].status)
         >= StatusRank(trainingEnrollments[i].status)]_vars

\* C9: PUT /api/training-enrollments/:id with an id of no enrollment is
\* answered 404, changes no enrollment and appends no audit row.
C9_UpdateUnknownId404 ==
  [][(/\ last'.route = "PUT /api/training-enrollments/:id"
      /\ Known(last'.auth)
      /\ last'.body.id # BadNum
      /\ last'.body.id \notin Ids(trainingEnrollments))
       => /\ last'.status = 404
          /\ trainingEnrollments' = trainingEnrollments
          /\ auditLogs' = auditLogs]_vars

\* C10: POST /api/training-enrollments with a sessionId of no session is
\* answered 400 and creates neither an enrollment nor an audit row.
C10_UnknownSession400 ==
  [][(/\ last'.route = "POST /api/training-enrollments"
      /\ Known(last'.auth)
      /\ last'.body.sessionId \notin {NoId, BadNum}
      /\ last'.body.sessionId \notin Ids(trainingSessions))
       => /\ last'.status = 400
          /\ trainingEnrollments' = trainingEnrollments
          /\ auditLogs' = auditLogs]_vars

\* C10 witness: with the full storage, an enrollment for session 99 was
\* answered 400.
C10_Witness ==
  /\ impl = "full"
  /\ last.route = "POST /api/training-enrollments"
  /\ last.body.sessionId = GhostId
  /\ last.auth = "emp1"
  /\ last.status = 400

\* C11: a catalog payload with title, type, category and duration is
\* refused with 400 by POST /api/training-catalog when its type is external
\* and its providerName is empty or absent, and is created (201) without
\* providerName when its type is not external.
C11_ExternalNeedsProvider ==
  [][(/\ last'.route = "POST /api/training-catalog"
      /\ Known(last'.auth)
      /\ last'.fault = "none"
      /\ ~C7_Invalid(last'.route, last'.body)
      /\ last'.body.providerName \in {MISSING, ""})
       => IF last'.body.type = "external"
          THEN last'.status = 400 /\ trainingCatalog' = trainingCatalog
          ELSE last'.status = 201]_vars

\* C13: a cost the form holds as a decimal with two fractional digits is on
\* the created catalog entry as its number of cents, and the entry's cost
\* formatted with two decimals is the input again.
C13_CostInCents ==
  [][(/\ last'.route = "POST /api/training-catalog"
      /\ last'.status = 201
      /\ last'.body.cost # NoId)
       => LET row == trainingCatalog'[Len(trainingCatalog')] IN
          /\ "cost" \in DOMAIN row
          /\ row.cost = last'.body.cost
          /\ \E c \in CostInputs :
               parseCost(c) = last'.body.cost /\ formatCost(row.cost) = c]_vars

\* the payload satisfies the insert schema of the route's entity
C12_Valid(route, body) ==
  CASE route = "POST /api/training-feedback" -> body.overallRating \in 1..5
    [] route = "POST /api/effectiveness-evaluations" ->
         body.overallEffectiveness \in 1..5
    [] OTHER -> ~C7_Invalid(route, body)

\* the records the payload refers to are in the store
C12_RefsExist(route, body) ==
  CASE route = "POST /api/training-sessions" ->
         body.catalogId \in {NoId} \cup Ids(trainingCatalog)
    [] route = "POST /api/training-enrollments" ->
         /\ body.sessionId \in {NoId} \cup Ids(trainingSessions)
         /\ Known(body.employeeId)
    [] route = "POST /api/effectiveness-evaluations" ->
         /\ body.enrollmentId \in {NoId} \cup Ids(trainingEnrollments)
         /\ Known(body.employeeId)
    [] route = "POST /api/training-feedback" ->
         body.enrollmentId \in {NoId} \cup Ids(trainingEnrollments)
    [] OTHER -> TRUE

\* the roles that create the route's entity
C12_Allow(route) ==
  IF route \in {"POST /api/training-catalog", "POST /api/training-sessions",
                "POST /api/effectiveness-evaluations"}
  THEN {"manager", "hr_admin"} ELSE Roles

\* the table of the route's entity after the request
C12_TableAfter(route) ==
  CASE route = "POST /api/training-catalog" -> trainingCatalog'
    [] route = "POST /api/training-sessions" -> trainingSessions'
    [] route = "POST /api/training-enrollments" -> trainingEnrollments'
    [] route = "POST /api/training-feedback" -> trainingFeedback'
    [] OTHER -> effectivenessEvaluations'

\* C12: a POST of a catalog entry, session, enrollment, feedback or
\* effectiveness evaluation by an authenticated, authorized user, with a
\* payload that satisfies the insert schema and refers to existing records,
\* is answered 201 with the id of a record that is in the store afterwards.
C12_ValidCreate201 ==
  [][(/\ last'.route \in {"POST /api/training-catalog",
                          "POST /api/training-sessions",
                          "POST /api/training-enrollments",
                          "POST /api/training-feedback",
                          "POST /api/effectiveness-evaluations"}
      /\ Known(last'.auth)
      /\ RoleOf(last'.auth) \in C12_Allow(last'.route)
      /\ last'.fault = "none"
      /\ C12_Valid(last'.route, last'.body)
      /\ C12_RefsExist(last'.route, last'.body))
       => /\ last'.status = 201
          /\ \E i \in 1..Len(C12_TableAfter(last'.route)) :
               C12_TableAfter(last'.route)[i].id = last'.result]_vars

BulkRoute == "POST /api/training-catalog/bulk-import"

\* the 1-based data row i of the sheet is not imported: a required field is
\* missing, an external training has no provider, or its insert fails
C14_Fails(sheet, i, fault) ==
  \/ sheet[i].title = MISSING
  \/ sheet[i].duration \in {NoId, BadNum}
  \/ (sheet[i].type = "external" /\ sheet[i].providerName = MISSING)
  \/ (fault = "write" /\ i = 1)

C14_Failing(sheet, fault) == { i \in 1..Len(sheet) : C14_Fails(sheet, i, fault) }

C15_OneSummaryAudit ==
  [][(last'.route = BulkRoute /\ last'.status \in {0, 200})
       => /\ Len(auditLogs') = Len(auditLogs) + 1
          /\ LET row == auditLogs'[Len(auditLogs')]
                 created == Len(trainingCatalog') - Len(trainingCatalog)
             IN /\ row.action = "bulk_import"
                /\ row.changes.totalRows = Len(last'.body.sheet)
                /\ row.changes.successCount = created
                /\ row.changes.errorCount = Len(last'.body.sheet) - created]_vars

\* C16: once a bulk import is answered (200, 400, 403 or 500), the file the
\* request wrote to the uploads directory is gone.
C16_UploadRemoved ==
  [][(last'.route = BulkRoute /\ last'.status \in {200, 400, 403, 500})
       => files' \subseteq files]_vars

\* C17: a spreadsheet row is imported if and only if POST
\* /api/training-catalog accepts a payload of the same values, and then the
\* same catalog record is stored.
C17_ImportValidatesAsCreate ==
  [][(/\ last'.route = BulkRoute
      /\ last'.status \in {0, 200}
      /\ last'.fault = "none"
      /\ Len(last'.body.sheet) = 1)
       => LET row == last'.body.sheet[1]
              imported == Len(trainingCatalog') = Len(trainingCatalog) + 1
          IN /\ imported <=> insertTrainingCatalogSchema(row)
             /\ imported =>
                  trainingCatalog'[Len(trainingCatalog')]
                    = CatalogRow(row, last'.auth)]_vars

Employees == { u \in users : u.role = "employee" }

\* C18: on a store without employees the dashboard's overallCompliance is
\* 0, whatever the enrollments.
C18_NoEmployeesZero ==
  [][(/\ last'.route = "GET /api/dashboard/metrics"
      /\ last'.status = 200
      /\ last'.fault = "none"
      /\ Employees = {})
       => last'.data.overallCompliance = 0]_vars

\* completed / (employees * R) * 100 rounded to one decimal, in tenths
C19_Formula(R) ==
  Round(CountStatus("completed") * 1000, Cardinality(Employees) * R)

\* C19: on every store with employees, getComplianceMetrics of either
\* storage module returns overallCompliance = completed / (employees * R) *
\* 100 rounded to one decimal, for one constant R, and pendingTrainings =
\* the number of enrollments of status enrolled.
C19_OneFormula ==
  Employees # {} =>
    \E R \in 1..10 :
      \A i \in Impls :
        /\ getComplianceMetrics(i, "none").overallCompliance = C19_Formula(R)
        /\ getComplianceMetrics(i, "none").pendingTrainings
             = CountStatus("enrolled")

\* C20: the report of GET /api/dashboard/employee-compliance has exactly one
\* entry for each user of role employee and none for the others, and an
\* entry is Compliant if and only if the employee has a completed
\* enrollment.
C20_ReportPerEmployee ==
  [][(/\ last'.route = "GET /api/dashboard/employee-compliance"
      /\ Known(last'.auth)
      /\ last'.fault = "none")
       => /\ last'.status = 200
          /\ last'.data =
               { [employeeId |-> u.id,
                  complianceStatus |->
                    IF \E k \in 1..Len(trainingEnrollments) :
                         /\ trainingEnrollments[k].employeeId = u.id
                         /\ trainingEnrollments[k].status = "completed"
                    THEN "Compliant" ELSE "Non-Compliant"] : u \in Employees }]_vars
\* ------------------------------------------------------------------------
\* C21: GET /api/audit-logs?limit=k by an HR admin answers with min(k, n) of
\* the n audit entries, those performed last, the latest first; without a
\* limit the cap is 100.
\* ------------------------------------------------------------------------
C21_Limit == IF last'.body = NoBody THEN 100 ELSE last'.body.limit

C21_LatestFirst ==
  [][ ( /\ last'.route = "GET /api/audit-logs"
        /\ Known(last'.auth) /\ RoleOf(last'.auth) = "hr_admin"
        /\ last'.fault = "none"
        /\ C21_Limit >= 0 )
      => /\ last'.status = 200
         /\ Len(last'.data) = Min(C21_Limit, Len(auditLogs))
         /\ \A j \in 1..(Len(last'.data) - 1) :
               performedAt(last'.data[j]) >= performedAt(last'.data[j + 1])
         /\ \A j \in 1..Len(last'.data) :
               \E i \in 1..Len(auditLogs) : auditLogs[i] = last'.data[j]
         /\ \A i \in 1..Len(auditLogs) :
               \/ \E j \in 1..Len(last'.data) : last'.data[j] = auditLogs[i]
               \/ \A j \in 1..Len(last'.data) :
                     performedAt(auditLogs[i]) <= performedAt(last'.data[j])
    ]_vars

\* ------------------------------------------------------------------------
\* The delete methods of storage.ts, called on a database that holds rows
\* ------------------------------------------------------------------------
MaxDeleteIds == 2

\* tables of rows with increasing ids, as the serial keys leave them after
\* earlier deletes
TablesOf(Rows) ==
  UNION { { t \in [1..n -> Rows] : \A k \in 1..(n - 1) : t[k].id < t[k + 1].id } :
            n \in 0..MaxDeleteIds }

\* the values a nullable foreign key column may hold: null or a key of `table`
Refs(table, pool) == {NoId} \cup (Ids(table) \cap pool)

\* a database whose rows satisfy the foreign keys of schema.ts
DeleteInit ==
  /\ impl = "full"
  /\ users = SeedUsers
  /\ trainingCatalog \in
       TablesOf([id : 1..MaxDeleteIds, title : {"OSHA Basics"}, type : {"internal"},
                 category : {"safety"}, duration : {4}, createdBy : {"mgr1"}])
  /\ trainingSessions \in
       TablesOf([id : 1..MaxDeleteIds, title : {"Kickoff"}, duration : {2},
                 catalogId : Refs(trainingCatalog, {1}), createdBy : {"mgr1"}])
  /\ trainingEnrollments \in
       { t \in TablesOf([id : {1}, sessionId : Refs(trainingSessions, {1}),
                         employeeId : {"emp1"}, status : {"enrolled"}]) :
           Len(t) <= 1 }
  /\ trainingFeedback = <<>>
  /\ effectivenessEvaluations = <<>>
  /\ evidenceAttachments \in
       { t \in TablesOf([id : 1..MaxDeleteIds, enrollmentId : {NoId},
                         sessionId : Refs(trainingSessions, {1}),
                         uploadedBy : {"emp1"}]) : Len(t) <= 1 }
  /\ auditLogs = <<>>
  /\ files = {}
  /\ last = Response("start", NoRequest, 0, NoId)

\* ids a delete is called with
DeleteIds == 1..MaxDeleteIds \cup {GhostId}

\* variant: the delete without its where clause
deleteWhere_All(table, id) == <<>>

\* db.delete(table).where(eq(table.id, id)): the table afterwards
deleteWhere(table, id) == SelectSeq(table, LAMBDA row : row.id # id)

\* result.rowCount: the number of rows the statement removed
rowCount(table, id) == Len(table) - Len(deleteWhere(table, id))

\* the call and what it gave: threw (the statement failed), else returned
Deleted(method, id, threw, returned) ==
  last' = [route |-> method, id |-> id, threw |-> threw, returned |-> returned]

\* a row of `table` whose column `col` holds id: the foreign key (no
\* ON DELETE action) makes the delete statement fail
ReferencedBy(table, col, id) == \E i \in 1..Len(table) : table[i][col] = id

\* storage.deleteTrainingCatalog(id); no method writes compliance_requirements,
\* the other table that references training_catalog
deleteTrainingCatalog ==
  \E id \in DeleteIds :
    /\ UNCHANGED <<impl, users, trainingSessions, trainingEnrollments,
                   trainingFeedback, effectivenessEvaluations,
                   evidenceAttachments, auditLogs, disk>>
    /\ IF ReferencedBy(trainingSessions, "catalogId", id)
       THEN /\ UNCHANGED trainingCatalog
            /\ Deleted("deleteTrainingCatalog", id, TRUE, FALSE)
       ELSE /\ trainingCatalog' = deleteWhere(trainingCatalog, id)
            /\ Deleted("deleteTrainingCatalog", id, FALSE,
                       rowCount(trainingCatalog, id) > 0)

\* storage.deleteTrainingSession(id)
deleteTrainingSession ==
  \E id \in DeleteIds :
    /\ UNCHANGED <<impl, users, trainingCatalog, trainingEnrollments,
                   trainingFeedback, effectivenessEvaluations,
                   evidenceAttachments, auditLogs, disk>>
    /\ IF \/ ReferencedBy(trainingEnrollments, "sessionId", id)
          \/ ReferencedBy(trainingFeedback, "sessionId", id)
          \/ ReferencedBy(evidenceAttachments, "sessionId", id)
       THEN /\ UNCHANGED trainingSessions
            /\ Deleted("deleteTrainingSession", id, TRUE, FALSE)
       ELSE /\ trainingSessions' = deleteWhere(trainingSessions, id)
            /\ Deleted("deleteTrainingSession", id, FALSE,
                       rowCount(trainingSessions, id) > 0)

\* storage.deleteEvidenceAttachment(id)
deleteEvidenceAttachment ==
  \E id \in DeleteIds :
    /\ UNCHANGED <<impl, users, trainingCatalog, trainingSessions,
                   trainingEnrollments, trainingFeedback,
                   effectivenessEvaluations, auditLogs, disk>>
    /\ evidenceAttachments' = deleteWhere(evidenceAttachments, id)
    /\ Deleted("deleteEvidenceAttachment", id, FALSE,
               rowCount(evidenceAttachments, id) > 0)

DeleteNext ==
  \/ deleteTrainingCatalog
  \/ deleteTrainingSession
  \/ deleteEvidenceAttachment

DeleteSpec == DeleteInit /\ [][DeleteNext]_vars

\* ------------------------------------------------------------------------
\* C22: delete is idempotent: deleting an id that is not in the table
\* returns false, raises no error and leaves the store unchanged; deleting
\* an existing id returns true and removes exactly that row; a second delete
\* of the same id returns false.
\* ------------------------------------------------------------------------
DeleteMethods ==
  {"deleteTrainingCatalog", "deleteTrainingSession", "deleteEvidenceAttachment"}

TableOf(method) ==
  IF method = "deleteTrainingCatalog" THEN trainingCatalog
  ELSE IF method = "deleteTrainingSession" THEN trainingSessions
  ELSE evidenceAttachments

C22_Referenced(method, id) ==
  IF method = "deleteTrainingCatalog"
  THEN ReferencedBy(trainingSessions, "catalogId", id)
  ELSE IF method = "deleteTrainingSession"
  THEN \/ ReferencedBy(trainingEnrollments, "sessionId", id)
       \/ ReferencedBy(trainingFeedback, "sessionId", id)
       \/ ReferencedBy(evidenceAttachments, "sessionId", id)
  ELSE FALSE

TableAfter(method) ==
  IF method = "deleteTrainingCatalog" THEN trainingCatalog'
  ELSE IF method = "deleteTrainingSession" THEN trainingSessions'
  ELSE evidenceAttachments'

\* the call that has just returned was method(id)
C22_Called(method, id) == last'.route = method /\ last'.id = id

\* the store after the call holds the rows of before except the row id
C22_RemovedExactly(method, id) ==
  /\ \A m \in DeleteMethods \ {method} : TableAfter(m) = TableOf(m)
  /\ UNCHANGED <<users, trainingEnrollments, trainingFeedback,
                 effectivenessEvaluations, auditLogs, disk>>
  /\ Len(TableAfter(method)) = Len(TableOf(method)) - 1
  /\ \A i \in 1..Len(TableOf(method)) :
        TableOf(method)[i].id # id
        => \E j \in 1..Len(TableAfter(method)) :
              TableAfter(method)[j] = TableOf(method)[i]
  /\ id \notin Ids(TableAfter(method))

C22_AbsentFalse(method, id) ==
  id \notin Ids(TableOf(method))
  => ~last'.threw /\ ~last'.returned /\ UNCHANGED <<store, disk>>

C22_SecondFalse(method, id) ==
  (last.route = method /\ last.id = id /\ last.returned)
  => ~last'.threw /\ ~last'.returned

\* the claim as stated: every delete of an existing id returns true
C22_DeleteIdempotent ==
  [][ \A method \in DeleteMethods, id \in DeleteIds :
        C22_Called(method, id)
        => /\ C22_AbsentFalse(method, id)
           /\ C22_SecondFalse(method, id)
           /\ id \in Ids(TableOf(method))
              => /\ ~last'.threw /\ last'.returned
                 /\ C22_RemovedExactly(method, id)
    ]_vars

\* C22 as amended: a delete of an existing id that no row references returns
\* true and removes exactly that row; a delete of a row that a session,
\* enrollment, feedback or attachment still references fails on the foreign
\* key and removes nothing; a delete of an absent id, and so a second delete
\* of the same id, returns false without an error and changes nothing.
C22_DeleteUnreferenced ==
  [][ \A method \in DeleteMethods, id \in DeleteIds :
        C22_Called(method, id)
        => /\ C22_AbsentFalse(method, id)
           /\ C22_SecondFalse(method, id)
           /\ (id \in Ids(TableOf(method)) /\ ~C22_Referenced(method, id))
              => /\ ~last'.threw /\ last'.returned
                 /\ C22_RemovedExactly(method, id)
           /\ (id \in Ids(TableOf(method)) /\ C22_Referenced(method, id))
              => last'.threw /\ UNCHANGED <<store, disk>>
    ]_vars

\* a delete of session 1 has returned true: the row is gone, session 2 stays
C22_Witness ==
  /\ last.route = "deleteTrainingSession"
  /\ last.id = 1
  /\ ~last.threw /\ last.returned
  /\ 1 \notin Ids(trainingSessions)
  /\ 2 \in Ids(trainingSessions)

\* ------------------------------------------------------------------------
\* C23: POST /api/login with the username and password of an existing user
\* answers with that user and a token, and with an unknown username or a
\* wrong password answers 401; the token, sent as the Authorization header
\* of any later request, resolves to that same user every time, also after
\* POST /api/logout.
\* ------------------------------------------------------------------------
C23_Matching(body) ==
  { u \in users : u.username = body.username /\ u.password = body.password }

C23_LoginAnswer ==
  (last'.route = "POST /api/login" /\ last'.fault = "none"
   /\ last'.body.username # MISSING /\ last'.body.password # MISSING)
  => IF C23_Matching(last'.body) = {}
     THEN last'.status = 401
     ELSE /\ last'.status = 200
          /\ \E u \in C23_Matching(last'.body) :
               /\ last'.data.user.id = u.id
               /\ last'.data.user.username = u.username
               /\ last'.data.user.role = u.role
               /\ isAuthenticated(last'.data.token, "none") = {u}

\* every credential that resolves to a user resolves to the same user after
\* the next request, whatever that request is
C23_SameIdentity ==
  \A a \in Headers :
    isAuthenticated(a, "none") # {}
    => isAuthenticated(a, "none")' = isAuthenticated(a, "none")

\* GET /api/auth/user answers with the user the header resolves to
C23_Resolved ==
  (last'.route = "GET /api/auth/user" /\ last'.status = 200)
  => \E u \in users : u.id = last'.auth /\ last'.data = withoutPassword(u)

C23_TokenResolvesToUser ==
  [][C23_LoginAnswer /\ C23_SameIdentity /\ C23_Resolved]_vars

\* the user emp has logged in: the answer carries the token of emp1
C23_Witness ==
  /\ last.route = "POST /api/login"
  /\ last.status = 200
  /\ last.body.username = "emp"
  /\ last.data.token = "emp1"
  /\ isAuthenticated(last.data.token, "none") = getUser("emp1")

\* ------------------------------------------------------------------------
\* C24: a rejected upload (larger than 10 MB, or with an extension or a MIME
\* type that is not on the whitelist) reaches neither the filesystem nor the
\* database: no file is written and no attachment, catalog entry or audit
\* entry is created.
\* ------------------------------------------------------------------------
UploadRoutes == {"POST /api/evidence-attachments", BulkRoute}

C24_Rejected(file) ==
  /\ file.ext # MISSING
  /\ file.big \/ ~allowedTypes(file.ext) \/ ~allowedTypes(file.mimetype)

C24_RejectedUploadNoTrace ==
  [][ (last'.route \in UploadRoutes /\ C24_Rejected(last'.body))
      => /\ files' = files
         /\ UNCHANGED store
         /\ last'.status \notin {200, 201}
    ]_vars

\* a signed-in user has sent a spreadsheet under the extension .xlsx while
\* the store holds a row: the upload was refused and nothing was added
C24_Witness ==
  /\ last.route = "POST /api/evidence-attachments"
  /\ last.body = XlsxUpload
  /\ last.auth = "emp1"
  /\ last.status = 500
  /\ files = {}
  /\ StoreRows = 1

\* ------------------------------------------------------------------------
\* C25: a failure that is none of authentication, authorization, validation
\* and not-found, such as the store throwing during a read or a write, is
\* answered 500 with a generic message: no route answers it with 2xx data
\* that was not read from the store, and none answers it with 400.
\* ------------------------------------------------------------------------
StoreFaults == {"read", "write", "audit"}

\* the request passed the guards and the store failed while serving it; the
\* import route is left out, where a failing insert is a row error (C14)
C25_StoreFailed ==
  /\ last'.fault \in StoreFaults
  /\ last'.route # BulkRoute
  /\ last'.status \notin {401, 403}

C25_StoreFailure500 ==
  [][C25_StoreFailed => last'.status = 500]_vars

\* ------------------------------------------------------------------------
\* C26: no API response discloses a password: the user objects that
\* GET /api/auth/user, POST /api/login, GET /api/users and POST /api/users
\* answer with never carry a password value.
\* ------------------------------------------------------------------------
\* the user objects of the response just sent
C26_UserObjects ==
  IF last'.status \notin {200, 201} THEN {}
  ELSE IF last'.route \in {"GET /api/auth/user", "POST /api/users"}
  THEN {last'.data}
  ELSE IF last'.route = "POST /api/login" THEN {last'.data.user}
  ELSE IF last'.route = "GET /api/users" THEN last'.data
  ELSE {}

C26_NoPasswordDisclosed ==
  [][\A u \in C26_UserObjects : u.password \in {MISSING, NULL}]_vars

\* ------------------------------------------------------------------------
\* C27: every authenticated bulk-import request completes with exactly one
\* HTTP response, also when a step after the row loop (deleting the
\* temporary file, writing the summary audit entry) fails and the error
\* handler runs.
\* ------------------------------------------------------------------------
C27_AlwaysAnswered ==
  [][ ( /\ last'.route = BulkRoute
        /\ Known(last'.auth)
        /\ last'.fault # "auth" )
      => last'.status # 0 ]_vars

\* ------------------------------------------------------------------------
\* C28: a successful PUT /api/training-enrollments/:id changes, on that
\* enrollment, only the fields the payload carries (and updatedAt); every
\* other field, every other enrollment and every entity table stays as it
\* was, and the response is the merged record. (The enrollment is one the
\* table holds; an id of no enrollment is the subject of C9.)
\* ------------------------------------------------------------------------
C28_Merged(row, new, payload) ==
  /\ new.id = row.id
  /\ new.sessionId = (IF payload.sessionId = NoId THEN row.sessionId
                      ELSE payload.sessionId)
  /\ new.employeeId = (IF payload.employeeId = MISSING THEN row.employeeId
                       ELSE payload.employeeId)
  /\ new.status = (IF payload.status = MISSING THEN row.status
                   ELSE payload.status)

EnrollmentWrites ==
  {"POST /api/training-enrollments", "PUT /api/training-enrollments/:id"}

C29_StatusInEnum ==
  [][ /\ \A i \in 1..Len(trainingEnrollments') :
           trainingEnrollments'[i].status \in Statuses
      /\ ( /\ last'.route \in EnrollmentWrites
           /\ Known(last'.auth)
           /\ last'.body.status \notin Statuses \cup {MISSING} )
         => /\ last'.status = 400
            /\ UNCHANGED store
    ]_vars

\* ------------------------------------------------------------------------
\* C30: export and import round trip: the template that
\* GET /api/training-catalog/template returns, uploaded unchanged to
\* POST /api/training-catalog/bulk-import by a manager or an HR admin, passes
\* the file filter and both illustrative rows are imported (success = 2, no
\* errors).
\* ------------------------------------------------------------------------
C30_TemplateRoundTrip ==
  [][ ( /\ last'.route = BulkRoute
        /\ last'.body = TemplateFile
        /\ Known(last'.auth)
        /\ RoleOf(last'.auth) \in {"manager", "hr_admin"}
        /\ last'.fault = "none" )
      => /\ fileFilter(last'.body)
         /\ last'.status = 200
         /\ last'.result = 2
         /\ last'.data = <<>>
         /\ Len(trainingCatalog') = Len(trainingCatalog) + 2
    ]_vars

====
